---------------------------- MODULE Spec2Model ----------------------------
(***************************************************************************)
(* Model of the two batch tools of brand-monitoring-tools:                 *)
(*   - info-collector/domain_info_collector.py   (the "collector")         *)
(*   - top level domain checker/domain_tld_checker.py (the "TLD checker")  *)
(*                                                                         *)
(* A Python str is a sequence of tokens.  A token is a TLA+ string that    *)
(* stands for a run of characters the program never looks inside; a        *)
(* whitespace character, and a "." of a domain name, is a token of its     *)
(* own.  The external collaborators (DNS resolver, WHOIS client) are the   *)
(* environment: every call draws its outcome from a set of outcomes.       *)
(***************************************************************************)
EXTENDS Integers, Sequences, FiniteSets, TLC

VARIABLES
    pc,            \* control point of the running tool or call
    input,         \* the rows (collector) or raw lines (TLD checker) of the input file
    idx,           \* number of input rows / lines consumed by the main loop
    results_data,  \* TLD checker: rows buffered in memory
    outfile,       \* data rows written to the output file
    log,           \* events in order: network queries, sleeps, terminal messages
    call,          \* arguments of the function call being made
    ret            \* value the call returned

vars == <<pc, input, idx, results_data, outfile, log, call, ret>>

---------------------------------------------------------------------------
(* Bounds of the model.                                                    *)

\* longest list held by a WHOIS field
MaxListLen == 2
\* most MX answers of one lookup
MaxMx == 2
\* most rows / lines of an input file
MaxRows == 2

---------------------------------------------------------------------------
(* Python strings.                                                         *)

Range(s) == {s[i] : i \in DOMAIN s}

\* Tokens in the order of Python's str comparison (code points).
TokenOrder ==
    << "\t", " ", " Error: ", ")", ",", ".", "0", "1.1.1.1", "2.2.2.2", "2001",
       "2002", "2003", "::1", "A", "COM", "DNS ", "IP", "IndexError", "MX", "N/A",
       "NS", "NXDOMAIN (", "NoAnswer (", "NoNameservers", "None", "Timeout (", "a",
       "a.mx.example", "b", "b.mx.example", "c", "co", "com", "ns1.example",
       "ns2.example", "raw", "sub", "uk", "x" >>

Rank(t) == CHOOSE i \in DOMAIN TokenOrder : TokenOrder[i] = t

IsSpace(t) == t \in {" ", "\t"}

\* s < t for Python strings
RECURSIVE StrLess(_, _)
StrLess(s, t) ==
    IF t = <<>> THEN FALSE
    ELSE IF s = <<>> THEN TRUE
    ELSE IF s[1] = t[1] THEN StrLess(Tail(s), Tail(t))
    ELSE Rank(s[1]) < Rank(t[1])

\* str.lstrip(), str.rstrip(), str.strip()
RECURSIVE LStrip(_)
LStrip(s) == IF s # <<>> /\ IsSpace(s[1]) THEN LStrip(Tail(s)) ELSE s

RECURSIVE RStrip(_)
RStrip(s) ==
    IF s # <<>> /\ IsSpace(s[Len(s)]) THEN RStrip(SubSeq(s, 1, Len(s) - 1)) ELSE s

Strip(s) == LStrip(RStrip(s))

\* str.rstrip('.')
RECURSIVE RStripDot(_)
RStripDot(s) ==
    IF s # <<>> /\ s[Len(s)] = "." THEN RStripDot(SubSeq(s, 1, Len(s) - 1)) ELSE s

\* sorted(list(set(...))) of a collection of strings
RECURSIVE SortedStrs(_)
SortedStrs(S) ==
    IF S = {} THEN <<>>
    ELSE LET m == CHOOSE x \in S : \A y \in S \ {x} : StrLess(x, y)
         IN  <<m>> \o SortedStrs(S \ {m})

\* sep.join(seq)
RECURSIVE Join(_, _)
Join(sep, seq) ==
    IF seq = <<>> THEN <<>>
    ELSE IF Len(seq) = 1 THEN seq[1]
    ELSE seq[1] \o sep \o Join(sep, Tail(seq))

\* ", ".join(seq)
JoinComma(seq) == Join(<<",", " ">>, seq)

NA == <<"N/A">>

---------------------------------------------------------------------------
(* Python values held by the attributes of a WHOIS record: None, a str,    *)
(* or a list of None / str.                                                *)

NoneV == [k |-> "None", s |-> <<>>, l |-> <<>>]
StrV(s) == [k |-> "str", s |-> s, l |-> <<>>]
ListV(l) == [k |-> "list", s |-> <<>>, l |-> l]

\* bool(v)
Truthy(v) ==
    CASE v.k = "None" -> FALSE
      [] v.k = "str"  -> v.s # <<>>
      [] v.k = "list" -> v.l # <<>>

\* str(v) of None or of a str
Str(v) == IF v.k = "None" THEN <<"None">> ELSE v.s

\* getattr(data_obj, attr_name) / data_obj.get(attr_name): None when absent
Attr(data_obj, attr_name) ==
    IF attr_name \in DOMAIN data_obj THEN data_obj[attr_name] ELSE NoneV

\* get_val with the list branch joining the elements in record order
get_val_unsorted(data_obj, attr_name, is_list, is_date) ==
    LET val == Attr(data_obj, attr_name)
    IN  IF Truthy(val)
        THEN IF val.k = "list"
             THEN IF is_date
                  THEN Str(val.l[1])
                  ELSE JoinComma([i \in 1..Len(val.l) |-> Strip(Str(val.l[i]))])
             ELSE Strip(Str(val))
        ELSE NA

\* get_val of the TLD checker
get_val(data_obj, attr_name, is_list, is_date) ==
    LET val == Attr(data_obj, attr_name)
    IN  IF Truthy(val)
        THEN IF val.k = "list"
             THEN IF is_date
                  THEN Str(val.l[1])
                  ELSE JoinComma(SortedStrs(
                          {Strip(Str(val.l[i])) :
                              i \in {j \in 1..Len(val.l) : Truthy(val.l[j])}}))
             ELSE Strip(Str(val))
        ELSE NA

---------------------------------------------------------------------------
(* Outcomes of the external calls.                                         *)

\* resolver.resolve(...) returned the answers rr
Answer(rr) == [k |-> "answer", rr |-> rr, ty |-> "", msg |-> <<>>]
\* resolver.resolve(...) raised NXDOMAIN, NoAnswer or Timeout
Raise(kind) == [k |-> kind, rr |-> <<>>, ty |-> "", msg |-> <<>>]
\* resolver.resolve(...) raised another exception, of the type named ty, with text msg
RaiseOther(ty, msg) == [k |-> "Other", rr |-> <<>>, ty |-> ty, msg |-> msg]

\* str(n) and int(s), for the small numbers of the model
DecimalText ==
    << "0", "1", "2", "3", "4", "5", "6", "7", "8", "9", "10",
       "11", "12", "13", "14", "15", "16", "17", "18", "19", "20" >>
Decimal(n) == DecimalText[n + 1]
IntOf(s) == CHOOSE n \in 0..(Len(DecimalText) - 1) : <<Decimal(n)>> = s

\* str.split(): the runs between whitespace
RECURSIVE Split(_)
Split(s) ==
    LET t == LStrip(s)
    IN  IF t = <<>> THEN <<>>
        ELSE LET stops == {i \in 1..Len(t) : IsSpace(t[i])}
                 n     == IF stops = {} THEN Len(t) + 1
                          ELSE CHOOSE i \in stops : \A j \in stops : i <= j
             IN  <<SubSeq(t, 1, n - 1)>> \o Split(SubSeq(t, n, Len(t)))

\* `sub in s` for strings, on token boundaries
Contains(s, sub) ==
    \E i \in 0..(Len(s) - Len(sub)) : SubSeq(s, i + 1, i + Len(sub)) = sub

---------------------------------------------------------------------------
(* TLD checker: get_domain_variant_info.                                   *)

InfoColumns ==
    { "Full Domain Queried", "DNS Resolves (A/AAAA)", "IP Addresses",
      "Name Servers (NS)", "Mail Servers (MX)", "WHOIS Creation Date",
      "WHOIS Updated Date", "WHOIS Expiration Date", "WHOIS Registrar",
      "WHOIS Domain Status", "WHOIS Registrant Org", "WHOIS Notes/Errors" }

WhoisColumns ==
    { "WHOIS Creation Date", "WHOIS Updated Date", "WHOIS Expiration Date",
      "WHOIS Registrar", "WHOIS Domain Status", "WHOIS Registrant Org" }

\* the locals of get_domain_variant_info after their initialisation;
\* queries lists the network queries issued so far
VariantStart(domain_variant) ==
    [ info |-> [c \in InfoColumns |->
                  CASE c = "Full Domain Queried"   -> domain_variant
                    [] c = "DNS Resolves (A/AAAA)" -> <<"No">>
                    [] c = "WHOIS Notes/Errors"    -> <<>>
                    [] OTHER                       -> NA],
      dns_errors      |-> <<>>,
      whois_errors    |-> <<>>,
      dns_resolved_ip |-> FALSE,
      dns_resolved_ns |-> FALSE,
      queries         |-> <<>> ]

\* the text an except clause of a DNS lookup appends to dns_errors
DnsErrorText(o, which) ==
    CASE o.k = "NXDOMAIN" -> <<"DNS ", "NXDOMAIN (", which, ")">>
      [] o.k = "NoAnswer" -> <<"DNS ", "NoAnswer (", which, ")">>
      [] o.k = "Timeout"  -> <<"DNS ", "Timeout (", which, ")">>
      [] o.k = "Other"    -> <<"DNS ", which, " Error: ", o.ty>>

\* 1. Check A/AAAA records: one try around the loop over both record types
CheckIP(st, env) ==
    IF env.a.k # "answer"
    THEN [st EXCEPT !.queries = @ \o <<"A">>,
                    !.dns_errors = Append(@, DnsErrorText(env.a, "IP"))]
    ELSE IF env.aaaa.k # "answer"
    THEN [st EXCEPT !.queries = @ \o <<"A", "AAAA">>,
                    !.dns_errors = Append(@, DnsErrorText(env.aaaa, "IP"))]
    ELSE LET ip_addresses_list == env.a.rr \o env.aaaa.rr
         IN  IF ip_addresses_list # <<>>
             THEN [st EXCEPT
                     !.queries = @ \o <<"A", "AAAA">>,
                     !.info = [@ EXCEPT !["IP Addresses"] =
                                            JoinComma(SortedStrs(Range(ip_addresses_list))),
                                        !["DNS Resolves (A/AAAA)"] = <<"Yes">>],
                     !.dns_resolved_ip = TRUE]
             ELSE [st EXCEPT !.queries = @ \o <<"A", "AAAA">>]

\* 2. Check NS records
CheckNS(st, env) ==
    LET q == [st EXCEPT !.queries = Append(@, "NS")]
    IN  IF env.ns.k = "answer"
        THEN LET name_servers_list ==
                     [i \in 1..Len(env.ns.rr) |-> RStripDot(env.ns.rr[i])]
             IN  IF name_servers_list # <<>>
                 THEN [q EXCEPT
                         !.info = [@ EXCEPT !["Name Servers (NS)"] =
                                       JoinComma(SortedStrs(Range(name_servers_list)))],
                         !.dns_resolved_ns = TRUE]
                 ELSE q
        ELSE IF env.ns.k = "NXDOMAIN" /\ st.dns_resolved_ip
        THEN q
        ELSE [q EXCEPT !.dns_errors = Append(@, DnsErrorText(env.ns, "NS"))]

\* the sort key of line 110: (int(x.split()[0]), x.split()[1])
MxKey(x) == [pref |-> IntOf(Split(x)[1]), name |-> Split(x)[2]]

KeyLess(a, b) == a.pref < b.pref \/ (a.pref = b.pref /\ StrLess(a.name, b.name))

\* list.sort(key=...): stable, ascending
RECURSIVE SortMx(_)
SortMx(seq) ==
    IF seq = <<>> THEN <<>>
    ELSE LET sorted == SortMx(SubSeq(seq, 1, Len(seq) - 1))
             x      == seq[Len(seq)]
             n      == Cardinality({i \in 1..Len(sorted) :
                                       ~KeyLess(MxKey(x), MxKey(sorted[i]))})
         IN  SubSeq(sorted, 1, n) \o <<x>> \o SubSeq(sorted, n + 1, Len(sorted))

\* 3. Check MX records
CheckMX(st, env) ==
    LET q == [st EXCEPT !.queries = Append(@, "MX")]
    IN  IF env.mx.k = "answer"
        THEN LET mail_servers_list ==
                     [i \in 1..Len(env.mx.rr) |->
                         <<Decimal(env.mx.rr[i].preference), " ">>
                         \o RStripDot(env.mx.rr[i].exchange)]
             IN  IF mail_servers_list = <<>>
                 THEN q
                 ELSE IF \E i \in 1..Len(mail_servers_list) :
                            Len(Split(mail_servers_list[i])) < 2
                 THEN \* x.split()[1] raises IndexError, caught by `except Exception`
                      [q EXCEPT !.dns_errors =
                                   Append(@, DnsErrorText(RaiseOther("IndexError", <<"list index out of range">>), "MX"))]
                 ELSE [q EXCEPT !.info = [@ EXCEPT !["Mail Servers (MX)"] =
                                              JoinComma(SortMx(mail_servers_list))]]
        ELSE IF env.mx.k = "NXDOMAIN" /\ (st.dns_resolved_ip \/ st.dns_resolved_ns)
        THEN q
        ELSE [q EXCEPT !.dns_errors = Append(@, DnsErrorText(env.mx, "MX"))]

\* whois.whois(...) returned the record w (a WhoisEntry: attribute -> value)
WhoisRecord(w) == [k |-> "record", w |-> w, ty |-> "", msg |-> <<>>]
\* whois.whois(...) returned None or an empty record
WhoisFalsy == [k |-> "falsy", w |-> <<>>, ty |-> "", msg |-> <<>>]
\* whois.whois(...) raised: k is the except clause that catches it
\* ("PywhoisError", "ConnectionResetError", "socket.timeout", "AttributeError",
\* "Exception"), ty the exception's type name, msg its str()
WhoisRaise(k, ty, msg) == [k |-> k, w |-> <<>>, ty |-> ty, msg |-> msg]

\* the number of characters of a token of an exception text or of a domain
CharLen(t) ==
    CASE t = "x100" -> 100
      [] t = "x50" -> 50
      [] t = "x254" -> 254
      [] t = "No match" -> 8
      [] t = "NOT FOUND" -> 9
      [] t = " for " -> 5
      [] t = "tail" -> 4
      [] t = "No whois server is known for this kind of object." -> 49
      [] t = "ConnectionResetError" -> 20
      [] t = "'NoneType' object has no attribute 'get'" -> 40
      [] OTHER -> 1

\* s[:n], for a string whose n-th character ends a token
RECURSIVE Truncate(_, _)
Truncate(s, n) ==
    IF s = <<>> \/ CharLen(s[1]) > n THEN <<>>
    ELSE <<s[1]>> \o Truncate(Tail(s), n - CharLen(s[1]))

\* len(s)
RECURSIVE StrLen(_)
StrLen(s) == IF s = <<>> THEN 0 ELSE CharLen(s[1]) + StrLen(Tail(s))

\* str.lower()
LowerToken(t) ==
    CASE t = "No match" -> "no match"
      [] t = "NOT FOUND" -> "not found"
      [] t = "No whois server is known for this kind of object."
            -> "no whois server is known for this kind of object."
      [] t = "ConnectionResetError" -> "connectionreseterror"
      [] t = "A" -> "a"
      [] t = "COM" -> "com"
      [] t = "GoDaddy" -> "godaddy"
      [] t = "LLC" -> "llc"
      [] OTHER -> t
Lower(s) == [i \in 1..Len(s) |-> LowerToken(s[i])]

\* the substrings line 167 looks for in a PywhoisError's text
NoMatchWords == {"no match", "not found", "no entries", "available", "invalid query"}

\* the condition of line 123: whether the WHOIS lookup is made
ShouldQueryWhois(st) ==
    \/ st.dns_resolved_ip
    \/ st.dns_resolved_ns
    \/ ~ \E i \in 1..Len(st.dns_errors) :
            /\ Contains(st.dns_errors[i], <<"NXDOMAIN (", "IP", ")">>)
            /\ Contains(st.dns_errors[i], <<"NXDOMAIN (", "NS", ")">>)

\* the except clauses with a timeout reported under the connection-reset label
WhoisErrorText_timeout_as_reset(o) ==
    CASE o.k = "PywhoisError" ->
            IF \E s \in NoMatchWords : Contains(Lower(o.msg), <<s>>)
            THEN <<"WHOIS: No match/Not found (likely available or invalid query).">>
            ELSE <<"WHOIS Error: ">> \o Truncate(o.msg, 100)
      [] o.k \in {"ConnectionResetError", "socket.timeout"} ->
            <<"WHOIS Error: ", "ConnectionResetError">>
      [] o.k = "AttributeError" ->
            <<"WHOIS AttrError: ">> \o Truncate(o.msg, 50)
                \o <<" (data structure unexpected)">>
      [] o.k = "Exception" ->
            <<"WHOIS General Error: ", o.ty, " - ">> \o Truncate(o.msg, 50)

\* the except clauses of the WHOIS lookup (lines 165-178)
WhoisErrorText(o) ==
    CASE o.k = "PywhoisError" ->
            IF \E s \in NoMatchWords : Contains(Lower(o.msg), <<s>>)
            THEN <<"WHOIS: No match/Not found (likely available or invalid query).">>
            ELSE <<"WHOIS Error: ">> \o Truncate(o.msg, 100)
      [] o.k = "ConnectionResetError" -> <<"WHOIS Error: ", "ConnectionResetError">>
      [] o.k = "socket.timeout" -> <<"WHOIS Error: ", "Socket Timeout">>
      [] o.k = "AttributeError" ->
            <<"WHOIS AttrError: ">> \o Truncate(o.msg, 50)
                \o <<" (data structure unexpected)">>
      [] o.k = "Exception" ->
            <<"WHOIS General Error: ", o.ty, " - ">> \o Truncate(o.msg, 50)

\* the body of the try of the WHOIS lookup when whois.whois returns (lines 126-163)
WhoisFields(st, o) ==
    LET w == o.w
        resolved == st.dns_resolved_ip \/ st.dns_resolved_ns
    IN  IF o.k = "record" /\ (Truthy(Attr(w, "domain_name")) \/ Truthy(Attr(w, "text")))
        THEN LET org == get_val(w, "org", FALSE, FALSE)
                 registrant_org ==
                     IF org = NA
                     THEN get_val(w, "registrant_organization", FALSE, FALSE)
                     ELSE org
                 name == get_val(w, "domain_name", FALSE, FALSE)
             IN  [st EXCEPT
                    !.info = [@ EXCEPT
                        !["WHOIS Creation Date"] = get_val(w, "creation_date", FALSE, TRUE),
                        !["WHOIS Updated Date"] = get_val(w, "updated_date", FALSE, TRUE),
                        !["WHOIS Expiration Date"] =
                            get_val(w, "expiration_date", FALSE, TRUE),
                        !["WHOIS Registrar"] = get_val(w, "registrar", FALSE, FALSE),
                        !["WHOIS Domain Status"] = get_val(w, "status", TRUE, FALSE),
                        !["WHOIS Registrant Org"] = registrant_org],
                    !.whois_errors =
                        IF (name = NA \/ name = <<>>) /\ ~resolved
                        THEN Append(@, <<"WHOIS data sparse or domain may be available.">>)
                        ELSE IF ~resolved
                        THEN Append(@, <<"WHOIS found, but no active DNS (A/AAAA or NS).">>)
                        ELSE @]
        ELSE [st EXCEPT
                !.whois_errors =
                    IF ~resolved
                    THEN Append(@, <<"Domain likely not registered (WHOIS empty/no match).">>)
                    ELSE Append(@,
                           <<"DNS resolves, but WHOIS lookup failed or returned no data.">>)]

\* 4. WHOIS Lookup
WhoisLookup(st, env) ==
    IF ShouldQueryWhois(st)
    THEN LET q == [st EXCEPT !.queries = Append(@, "WHOIS")]
         IN  IF env.whois.k \in {"record", "falsy"}
             THEN WhoisFields(q, env.whois)
             ELSE [q EXCEPT !.whois_errors = Append(@, WhoisErrorText(env.whois))]
    ELSE [st EXCEPT !.whois_errors =
              Append(@, <<"Skipped WHOIS due to DNS indicating non-existence.">>)]

\* the notes field is left as it was initialised
Notes_left_empty(st) == st

\* lines 183-186: the notes field
Notes(st) ==
    LET dns_part ==
            IF st.dns_errors # <<>>
            THEN << <<"DNS: ">> \o Join(<<"; ">>, SortedStrs(Range(st.dns_errors))) >>
            ELSE <<>>
        whois_part ==
            IF st.whois_errors # <<>>
            THEN << <<"WHOIS: ">> \o Join(<<"; ">>, SortedStrs(Range(st.whois_errors))) >>
            ELSE <<>>
        all_notes == dns_part \o whois_part
    IN  [st EXCEPT !.info = [@ EXCEPT !["WHOIS Notes/Errors"] =
                                IF all_notes # <<>> THEN Join(<<" | ">>, all_notes)
                                ELSE <<"OK">>]]

\* get_domain_variant_info(domain_variant) under the outcomes env of its network
\* calls; .info is the dict it returns, .queries the queries it issued
get_domain_variant_info(domain_variant, env) ==
    Notes(WhoisLookup(CheckMX(CheckNS(CheckIP(VariantStart(domain_variant), env),
                                      env), env), env))

---------------------------------------------------------------------------
(* Collector: get_domain_info.                                             *)

\* what an f-string shows of a value: str(v), and repr of a list
ReprElem(v) == IF v.k = "None" THEN <<"None">> ELSE <<"'">> \o v.s \o <<"'">>
Fmt(v) ==
    IF v.k = "list"
    THEN <<"[">> \o JoinComma([i \in 1..Len(v.l) |-> ReprElem(v.l[i])]) \o <<"]">>
    ELSE Str(v)

\* `{v if v else 'N/A'}`
OrNA(v) == IF Truthy(v) THEN Fmt(v) ELSE NA

\* one statement of the WHOIS block: the lines it appends, or what it raises
Ok(lines) == [raised |-> "", msg |-> <<>>, lines |-> lines]
Raised(kind, msg) == [raised |-> kind, msg |-> msg, lines |-> <<>>]

\* ', '.join(v) of a list or a str: a TypeError on an element that is no str;
\* a str is joined character by character (its tokens are single characters)
JoinValue(label, v) ==
    IF v.k = "list"
    THEN LET bad == {i \in 1..Len(v.l) : v.l[i].k # "str"}
         IN  IF bad # {}
             THEN Raised("Exception",
                         <<"sequence item ",
                           Decimal((CHOOSE i \in bad : \A j \in bad : i <= j) - 1),
                           ": expected str instance, NoneType found">>)
             ELSE Ok(<< label \o JoinComma([i \in 1..Len(v.l) |-> v.l[i].s]) >>)
    ELSE Ok(<< label \o JoinComma([i \in 1..Len(v.s) |-> <<v.s[i]>>]) >>)

\* lines 24-32: the registrar URL, given or guessed from the registrar's name
RegistrarUrlStep(w) ==
    IF Truthy(Attr(w, "registrar_url"))
    THEN Ok(<< <<"Registrar URL: ">> \o Fmt(Attr(w, "registrar_url")) >>)
    ELSE IF Truthy(Attr(w, "registrar"))
    THEN IF Attr(w, "registrar").k = "list"
         THEN Raised("AttributeError", <<"'list' object has no attribute 'split'">>)
         ELSE LET r == Attr(w, "registrar").s
                  commas == {i \in 1..Len(r) : r[i] = ","}
                  first == IF commas = {} THEN r
                           ELSE SubSeq(r, 1, (CHOOSE i \in commas :
                                                 \A j \in commas : i <= j) - 1)
                  main_registrar_name ==
                      SelectSeq(Lower(first), LAMBDA t : t \notin {" ", "."})
              IN  Ok(<< <<"Registrar URL: ">> \o
                        (IF main_registrar_name # <<>>
                         THEN <<"https://www.">> \o main_registrar_name \o <<".com">>
                         ELSE NA) >>)
    ELSE Ok(<< <<"Registrar URL: ">> \o NA >>)

\* lines 35-45: a date, the first element of a list
DateStep(label, v) ==
    LET d == IF v.k = "list" THEN (IF v.l # <<>> THEN v.l[1] ELSE NoneV) ELSE v
    IN  Ok(<< label \o (IF Truthy(d) THEN Str(d) ELSE NA) >>)

\* lines 54-57: the domain status
StatusStep(v) ==
    IF v.k = "list"
    THEN IF v.l # <<>> THEN JoinValue(<<"Domain Status: ">>, v)
         ELSE Ok(<< <<"Domain Status: ">> \o NA >>)
    ELSE Ok(<< <<"Domain Status: ">> \o (IF Truthy(v) THEN Str(v) ELSE NA) >>)

\* `a or b`
PyOr(a, b) == IF Truthy(a) THEN a ELSE b

\* lines 63-74: name, organization and email of one contact
ContactStep(prefix, Cap, w) ==
    LET own_name == Attr(w, prefix \o "_name")
        own_org == Attr(w, prefix \o "_organization")
        name == IF prefix = "registrant" THEN PyOr(own_name, Attr(w, "name")) ELSE own_name
        org == IF prefix = "registrant" THEN PyOr(own_org, Attr(w, "org")) ELSE own_org
        email == Attr(w, prefix \o "_email")
    IN  Ok((IF Truthy(name) THEN << <<Cap, " Name: ">> \o Fmt(name) >> ELSE <<>>)
           \o (IF Truthy(org) THEN << <<Cap, " Organization: ">> \o Fmt(org) >> ELSE <<>>)
           \o (IF Truthy(email) THEN << <<Cap, " Email: ">> \o Fmt(email) >> ELSE <<>>))

\* lines 20-80: the statements run on a record whose domain_name is truthy
WhoisSteps(w) ==
    << IF Attr(w, "domain_name").k = "str"
       THEN Ok(<< <<"Domain Name: ">> \o Attr(w, "domain_name").s >>)
       ELSE JoinValue(<<"Domain Name: ">>, Attr(w, "domain_name")),
       Ok(<< <<"Registry Domain ID: ">> \o OrNA(Attr(w, "registry_domain_id")) >>),
       Ok(<< <<"Registrar WHOIS Server: ">> \o OrNA(Attr(w, "whois_server")) >>),
       RegistrarUrlStep(w),
       DateStep(<<"Updated Date: ">>, Attr(w, "updated_date")),
       DateStep(<<"Creation Date: ">>, Attr(w, "creation_date")),
       DateStep(<<"Registrar Registration Expiration Date: ">>,
                Attr(w, "expiration_date")),
       Ok(<< <<"Registrar: ">> \o OrNA(Attr(w, "registrar")) >>),
       Ok(<< <<"Registrar IANA ID: ">> \o OrNA(Attr(w, "iana_id")) >>),
       Ok(<< <<"Registrar Abuse Contact Email: ">>
                 \o OrNA(Attr(w, "abuse_contact_email")) >>),
       Ok(<< <<"Registrar Abuse Contact Phone: ">>
                 \o OrNA(Attr(w, "abuse_contact_phone")) >>),
       StatusStep(Attr(w, "status")),
       ContactStep("registrant", "Registrant", w),
       ContactStep("admin", "Admin", w),
       ContactStep("tech", "Tech", w),
       IF Truthy(Attr(w, "name_servers"))
       THEN JoinValue(<<"Name Server: ">>, Attr(w, "name_servers"))
       ELSE Ok(<< <<"Name Server: ">> \o NA >>) >>

\* the lines appended by the statements that ran before the first one that raised
RECURSIVE LinesOf(_)
LinesOf(steps) ==
    IF steps = <<>> \/ steps[1].raised # "" THEN <<>>
    ELSE steps[1].lines \o LinesOf(Tail(steps))

\* the except clauses of the WHOIS block (lines 90-98); kind is the clause
CollectorWhoisError(st, domain_name, kind, msg) ==
    CASE kind = "PywhoisError" ->
            [st EXCEPT
               !.info_parts = Append(@, <<"WHOIS Error: ">> \o msg),
               !.errors = Append(@, <<"WHOIS lookup error for ">> \o domain_name
                                       \o <<": ">> \o msg)]
      [] kind = "AttributeError" ->
            [st EXCEPT
               !.info_parts = Append(@, <<"WHOIS Attribute Error: ">> \o msg \o
                    <<" (data might be incomplete or structured differently)">>),
               !.errors = Append(@, <<"WHOIS attribute error for ">> \o domain_name
                                       \o <<": ">> \o msg)]
      [] OTHER ->
            [st EXCEPT
               !.info_parts = Append(@, <<"WHOIS General Error: ">> \o msg),
               !.errors = Append(@, <<"General WHOIS processing error for ">>
                                       \o domain_name \o <<": ">> \o msg)]

\* lines 16-98: the WHOIS lookup of the collector
CollectorWhois(st, domain_name, env) ==
    LET q == [st EXCEPT !.queries = Append(@, "WHOIS")]
        o == env.whois
    IN  IF o.k = "record"
        THEN IF Truthy(Attr(o.w, "domain_name"))
             THEN LET steps == WhoisSteps(o.w)
                      done  == [q EXCEPT !.info_parts = @ \o LinesOf(steps)]
                      bad   == {i \in 1..Len(steps) : steps[i].raised # ""}
                  IN  IF bad = {} THEN done
                      ELSE LET b == steps[CHOOSE i \in bad : \A j \in bad : i <= j]
                           IN  CollectorWhoisError(done, domain_name, b.raised, b.msg)
             ELSE [q EXCEPT !.info_parts =
                      @ \o << <<"WHOIS information incomplete or lookup failed.">> >>
                        \o (IF Truthy(Attr(o.w, "text"))
                            THEN << <<"Raw WHOIS response might contain partial data or error message.">> >>
                            ELSE <<>>)]
        ELSE IF o.k = "falsy"
        THEN [q EXCEPT
                !.info_parts = Append(@, <<"WHOIS lookup failed to return any data.">>),
                !.errors = Append(@, <<"WHOIS lookup failed for ">> \o domain_name)]
        ELSE CollectorWhoisError(q, domain_name,
                 IF o.k \in {"PywhoisError", "AttributeError"} THEN o.k ELSE "Exception",
                 o.msg)

\* the except clauses of a DNS lookup of the collector; which is "A/AAAA" or "MX"
CollectorDnsError(st, domain_name, o, head, which, none_found) ==
    CASE o.k = "NXDOMAIN" ->
            [st EXCEPT
               !.info_parts = Append(@, <<head, ": ", "NXDOMAIN (Domain does not exist)">>),
               !.errors = Append(@, <<"DNS NXDOMAIN for ">> \o domain_name
                                       \o <<" (", which, ")">>)]
      [] o.k = "NoAnswer" ->
            [st EXCEPT
               !.info_parts = Append(@, <<head, ": ", none_found>>),
               !.errors = Append(@, <<"DNS NoAnswer for ">> \o domain_name
                                       \o <<" (", which, ")">>)]
      [] o.k = "Timeout" ->
            [st EXCEPT
               !.info_parts = Append(@, <<head, ": ", "DNS Timeout">>),
               !.errors = Append(@, <<"DNS Timeout for ">> \o domain_name
                                       \o <<" (", which, ")">>)]
      [] o.k = "Other" ->
            [st EXCEPT
               !.info_parts = Append(@, <<head, " Error: ">> \o o.msg),
               !.errors = Append(@, <<"DNS ", which, " lookup error for ">> \o domain_name
                                       \o <<": ">> \o o.msg)]

\* lines 105-124: A/AAAA records of the collector
CollectorIP(st, domain_name, env) ==
    IF env.a.k # "answer"
    THEN CollectorDnsError([st EXCEPT !.queries = @ \o <<"A">>], domain_name, env.a,
                           "Server IP (A/AAAA)", "A/AAAA", "No A/AAAA record found")
    ELSE IF env.aaaa.k # "answer"
    THEN CollectorDnsError([st EXCEPT !.queries = @ \o <<"A", "AAAA">>], domain_name,
                           env.aaaa,
                           "Server IP (A/AAAA)", "A/AAAA", "No A/AAAA record found")
    ELSE LET ip_addresses == env.a.rr \o env.aaaa.rr
         IN  [st EXCEPT
                !.queries = @ \o <<"A", "AAAA">>,
                !.info_parts = Append(@, <<"Server IP (A/AAAA)", ": ">> \o
                    (IF ip_addresses # <<>> THEN JoinComma(ip_addresses)
                     ELSE <<"No A/AAAA record found">>))]

\* lines 126-144: MX records of the collector
CollectorMX(st, domain_name, env) ==
    LET q == [st EXCEPT !.queries = Append(@, "MX")]
    IN  IF env.mx.k # "answer"
        THEN CollectorDnsError(q, domain_name, env.mx,
                               "Mail Server (MX)", "MX", "No MX record found")
        ELSE LET mail_servers ==
                     [i \in 1..Len(env.mx.rr) |->
                         <<Decimal(env.mx.rr[i].preference), " ">> \o env.mx.rr[i].exchange]
             IN  [q EXCEPT
                    !.info_parts = Append(@, <<"Mail Server (MX)", ": ">> \o
                        (IF mail_servers # <<>> THEN JoinComma(mail_servers)
                         ELSE <<"No MX record found">>))]

\* the locals info_parts and errors of get_domain_info after all lookups, and
\* the queries issued
CollectorLookups(domain_name, env) ==
    CollectorMX(CollectorIP(CollectorWhois(
        [info_parts |-> <<>>, errors |-> <<>>, queries |-> <<>>],
        domain_name, env), domain_name, env), domain_name, env)

\* get_domain_info(domain_name): the text it returns (lines 146-151)
get_domain_info(domain_name, env) ==
    LET st == CollectorLookups(domain_name, env)
    IN  IF st.info_parts = <<>> /\ st.errors # <<>>
        THEN <<"Error gathering information:\n">> \o Join(<<"\n">>, st.errors)
        ELSE IF st.errors # <<>>
        THEN Join(<<"\n">>, st.info_parts) \o <<"\n\nEncountered issues:\n">>
                 \o Join(<<"\n">>, st.errors)
        ELSE Join(<<"\n">>, st.info_parts)

---------------------------------------------------------------------------
(* The environment: what the resolver and the WHOIS client may answer.     *)

\* sequences over S of length lo..hi
SeqsOf(S, lo, hi) == UNION {[1..n -> S] : n \in lo..hi}

NoNameservers == RaiseOther("NoNameservers", <<"All nameservers failed">>)
DnsFailures == {Raise("NXDOMAIN"), Raise("NoAnswer"), Raise("Timeout"), NoNameservers}

AOutcomes ==
    {Answer(<< <<"1.1.1.1">> >>), Answer(<< <<"2.2.2.2">>, <<"1.1.1.1">> >>)}
        \cup DnsFailures
AAAAOutcomes == {Answer(<< <<"::1">> >>)} \cup DnsFailures
NSOutcomes ==
    {Answer(<< <<"ns1.example", ".">> >>),
     Answer(<< <<"ns2.example", ".">>, <<"ns1.example", ".">> >>)} \cup DnsFailures

\* MX records: the last one is the null MX of RFC 7505, "0 ."
MxRecords ==
    { [preference |-> 10, exchange |-> <<"a.mx.example", ".">>],
      [preference |-> 10, exchange |-> <<"b.mx.example", ".">>],
      [preference |-> 20, exchange |-> <<"b.mx.example", ".">>],
      [preference |-> 9,  exchange |-> <<"b.mx.example", ".">>],
      [preference |-> 0,  exchange |-> <<".">>] }
\* an answer holds each record once, in any order
MxAnswers ==
    {Answer(rr) : rr \in {s \in SeqsOf(MxRecords, 1, MaxMx) :
                            \A i, j \in DOMAIN s : i # j => s[i] # s[j]}}
MXOutcomes == MxAnswers \cup DnsFailures

\* values of a WHOIS attribute
ListElems == {NoneV, StrV(<<>>), StrV(<<"a">>), StrV(<<"b">>), StrV(<<" ", "a">>)}
FieldVals ==
    {NoneV, StrV(<<>>), StrV(<<" ">>), StrV(<<"a">>), StrV(<<" ", "a", " ">>)}
        \cup {ListV(l) : l \in SeqsOf(ListElems, 0, MaxListLen)}

DomainNameVals ==
    {NoneV, StrV(<<"a", ".", "com">>),
     ListV(<<StrV(<<"A", ".", "COM">>), StrV(<<"a", ".", "com">>)>>)}
TextVals == {NoneV, StrV(<<"raw">>)}

WhoisRaises ==
    { WhoisRaise("PywhoisError", "PywhoisError", <<"No match", " for ", "x">>),
      WhoisRaise("PywhoisError", "PywhoisError", <<"NOT FOUND">>),
      WhoisRaise("PywhoisError", "PywhoisError",
                 <<"No whois server is known for this kind of object.">>),
      WhoisRaise("PywhoisError", "PywhoisError", <<"x100", "tail">>),
      WhoisRaise("ConnectionResetError", "ConnectionResetError",
                 <<"[Errno 104] Connection reset by peer">>),
      WhoisRaise("socket.timeout", "timeout", <<"timed out">>),
      WhoisRaise("AttributeError", "AttributeError",
                 <<"'NoneType' object has no attribute 'get'">>),
      WhoisRaise("AttributeError", "AttributeError", <<"x50", "tail">>),
      WhoisRaise("Exception", "ValueError", <<"x50", "tail">>),
      WhoisRaise("Exception", "OSError", <<"timed out">>) }

\* records as the TLD checker reads them
CheckerRecords ==
    { [domain_name |-> dn, text |-> tx, creation_date |-> v, updated_date |-> v,
       expiration_date |-> v, registrar |-> v, status |-> v, org |-> o,
       registrant_organization |-> v] :
        dn \in DomainNameVals, tx \in TextVals, v \in FieldVals,
        o \in {NoneV, StrV(<<" ">>), StrV(<<"b">>)} }

PlainRecord ==
    [domain_name |-> StrV(<<"a", ".", "com">>), text |-> StrV(<<"raw">>),
     creation_date |-> StrV(<<"2001">>), updated_date |-> StrV(<<"2002">>),
     expiration_date |-> StrV(<<"2003">>), registrar |-> StrV(<<"a">>),
     status |-> ListV(<<StrV(<<"b">>), StrV(<<"a">>)>>), org |-> NoneV,
     registrant_organization |-> StrV(<<"b">>)]

Env(a, aaaa, ns, mx, whois) ==
    [a |-> a, aaaa |-> aaaa, ns |-> ns, mx |-> mx, whois |-> whois]

\* a name that has A records exists: its AAAA lookup does not say NXDOMAIN
SameName(a, aaaa) == ~(a.k = "answer" /\ aaaa.k = "NXDOMAIN")

\* DNS outcomes that cover: all resolve, nothing exists, exists without
\* records, only the address resolves
FewDns ==
    { <<Answer(<< <<"1.1.1.1">> >>), Answer(<< <<"::1">> >>),
        Answer(<< <<"ns1.example", ".">> >>),
        Answer(<< [preference |-> 10, exchange |-> <<"a.mx.example", ".">>] >>)>>,
      <<Raise("NXDOMAIN"), Raise("NXDOMAIN"), Raise("NXDOMAIN"), Raise("NXDOMAIN")>>,
      <<Raise("NoAnswer"), Raise("NoAnswer"), Raise("NoAnswer"), Raise("Timeout")>>,
      <<Answer(<< <<"1.1.1.1">> >>), Answer(<< <<"::1">> >>),
        Raise("NXDOMAIN"), Raise("NXDOMAIN")>> }

FewWhois ==
    { WhoisRecord(PlainRecord), WhoisFalsy,
      WhoisRaise("socket.timeout", "timeout", <<"timed out">>) }

FewMx ==
    { Answer(<< [preference |-> 10, exchange |-> <<"a.mx.example", ".">>] >>),
      Raise("NXDOMAIN"), Raise("NoAnswer") }

\* the outcomes get_domain_variant_info is checked under: every combination
\* of the outcomes of the A, AAAA and NS lookups; every MX outcome; every
\* WHOIS outcome
CheckerEnvs ==
    { Env(c[1], c[2], c[3], c[4], c[5]) :
        c \in {x \in AOutcomes \X AAAAOutcomes \X NSOutcomes \X FewMx \X FewWhois :
                 SameName(x[1], x[2])} }
    \cup
    { Env(d[1], d[2], d[3], mx, WhoisRecord(PlainRecord)) :
        d \in FewDns, mx \in MXOutcomes }
    \cup
    { Env(d[1], d[2], d[3], d[4], w) :
        d \in FewDns,
        w \in {WhoisRecord(r) : r \in CheckerRecords} \cup {WhoisFalsy} \cup WhoisRaises }

\* records as the collector reads them; the attributes left out are absent
CollectorRecord(dn, tx, reg, v, ns) ==
    [domain_name |-> dn, text |-> tx, registrar |-> reg, updated_date |-> v,
     creation_date |-> v, expiration_date |-> v, status |-> v, name_servers |-> ns,
     org |-> StrV(<<"b">>), admin_email |-> StrV(<<"x">>)]

RegistrarVals ==
    {NoneV, StrV(<<"GoDaddy", ".", "com", ",", " ", "LLC">>), ListV(<<StrV(<<"a">>)>>)}
NameServerVals ==
    {NoneV, StrV(<<"a", "b">>),
     ListV(<<StrV(<<"ns2.example">>), StrV(<<"ns1.example">>)>>)}

CollectorRecords ==
    { CollectorRecord(dn, tx, StrV(<<"a">>), v, NoneV) :
        dn \in DomainNameVals \cup {ListV(<<StrV(<<"a", ".", "com">>), NoneV>>)},
        tx \in TextVals, v \in FieldVals }
    \cup
    { CollectorRecord(StrV(<<"a", ".", "com">>), NoneV, reg, v, ns) :
        reg \in RegistrarVals, ns \in NameServerVals,
        v \in {NoneV, StrV(<<"a">>), ListV(<<StrV(<<"b">>), StrV(<<"a">>)>>)} }

\* the outcomes get_domain_info is checked under (it makes no NS lookup)
CollectorEnvs ==
    { Env(c[1], c[2], Raise("NoAnswer"), c[3], c[4]) :
        c \in {x \in AOutcomes \X AAAAOutcomes \X MXOutcomes \X FewWhois :
                 SameName(x[1], x[2])} }
    \cup
    { Env(d[1], d[2], Raise("NoAnswer"), d[4], w) :
        d \in FewDns,
        w \in {WhoisRecord(r) : r \in CollectorRecords} \cup {WhoisFalsy} \cup WhoisRaises }

---------------------------------------------------------------------------
(* TLD checker: the catalog, extract_meaningful_base and main.             *)

\* TLDS_TO_CHECK after line 20 (de-duplicated, sorted) begins '.agency', '.ai',
\* '.app', ...; the model expands against its first two entries
TLDS_TO_CHECK == <<".agency", ".ai">>

\* str.split('.')
RECURSIVE SplitDots(_)
SplitDots(s) ==
    LET dots == {i \in 1..Len(s) : s[i] = "."}
    IN  IF dots = {} THEN <<s>>
        ELSE LET n == CHOOSE i \in dots : \A j \in dots : i <= j
             IN  <<SubSeq(s, 1, n - 1)>> \o SplitDots(SubSeq(s, n + 1, Len(s)))

\* '.'.join(labels)
JoinDots(labels) == Join(<<".">>, labels)

\* the public suffixes the model knows: com, uk, co.uk
PublicSuffixes ==
    { << <<"com">> >>, << <<"uk">> >>, << <<"co">>, <<"uk">> >> }

\* tldextract.extract(netloc): the labels are split at the dots, the longest
\* public suffix is taken off the right, the label before it is the domain
\* and the labels before that the subdomain
tldextract_extract(netloc) ==
    LET labels == SplitDots(netloc)
        n == Len(labels)
        hits == {i \in 1..n : SubSeq(labels, i, n) \in PublicSuffixes}
        \* the number of labels before the suffix
        suffix_index == IF hits = {} THEN n
                        ELSE (CHOOSE i \in hits : \A j \in hits : i <= j) - 1
    IN  [ subdomain |-> IF suffix_index >= 2
                        THEN JoinDots(SubSeq(labels, 1, suffix_index - 1)) ELSE <<>>,
          domain    |-> IF suffix_index >= 1 THEN labels[suffix_index] ELSE <<>>,
          suffix    |-> IF suffix_index # n
                        THEN JoinDots(SubSeq(labels, suffix_index + 1, n)) ELSE <<>> ]

\* extract_meaningful_base
extract_meaningful_base(fqdn) ==
    LET ext == tldextract_extract(Strip(Lower(fqdn)))
    IN  IF ext.subdomain # <<>>
        THEN ext.subdomain \o <<".">> \o ext.domain
        ELSE ext.domain

output_header ==
    << "Original Input Domain", "Base Name Extracted", "TLD Variant Checked",
       "Full Domain Queried", "DNS Resolves (A/AAAA)", "IP Addresses",
       "Name Servers (NS)", "Mail Servers (MX)", "WHOIS Creation Date",
       "WHOIS Updated Date", "WHOIS Expiration Date", "WHOIS Registrar",
       "WHOIS Domain Status", "WHOIS Registrant Org", "WHOIS Notes/Errors" >>

\* csv.DictWriter.writerow: the columns of the header, '' for a missing key
DictRow(row) ==
    [c \in Range(output_header) |-> IF c \in DOMAIN row THEN row[c] ELSE <<>>]

\* line 205: the stripped non-blank lines of the input file
original_domains(lines) ==
    LET kept == SelectSeq(lines, LAMBDA line : Strip(line) # <<>>)
    IN  [i \in 1..Len(kept) |-> Strip(kept[i])]

\* an event of the log
Event(ev, what, domain) == [ev |-> ev, what |-> what, domain |-> domain]
Queries(kinds, domain) == [i \in 1..Len(kinds) |-> Event("query", kinds[i], domain)]
Printed(msg) == Event("print", msg, <<>>)
\* the turn goes on without the delay
Slept_skipped == Printed("")
\* time.sleep: the fixed delay
Slept == Event("sleep", "", <<>>)

\* the files of a run: whether the input file can be opened, and its content
File(readable, lines) == [readable |-> readable, lines |-> lines]

\* the input lines of the TLD checker
CheckerLines ==
    { <<" ", "A", ".", "COM", " ">>,
      <<"sub", ".", "a", ".", "co", ".", "uk">>,
      <<"abc">>,
      <<"a", ".", ".", "com">>,
      <<"com">>,
      <<" ">> }

\* the outcomes the calls made by the main loops draw from: every lookup
\* answers (a WHOIS record with a padded registrar and an empty date), or
\* every lookup fails in its own way (all outcomes of a call are covered
\* under SpecInfo)
DriverEnvs ==
    { Env(Answer(<< <<"1.1.1.1">> >>), Answer(<< <<"::1">> >>),
          Answer(<< <<"ns1.example", ".">> >>),
          Answer(<< [preference |-> 10, exchange |-> <<"a.mx.example", ".">>] >>),
          WhoisRecord([PlainRecord EXCEPT !.registrar = StrV(<<" ">>),
                                          !.creation_date = ListV(<<NoneV>>)])),
      Env(Raise("NXDOMAIN"), Raise("NXDOMAIN"), Raise("Timeout"), Raise("NoAnswer"),
          WhoisRaise("socket.timeout", "timeout", <<"timed out">>)) }

\* the loop over the lines is left after one TLD
NextTurn_one_tld_per_line(at) == <<at[1] + 1, 0>>

\* lines 222 and 233: the next turn of the loops: the next TLD of this line,
\* or the first TLD of the next line
NextTurn(at) ==
    IF at[2] + 1 = Len(TLDS_TO_CHECK) THEN <<at[1] + 1, 0>> ELSE <<at[1], at[2] + 1>>

\* lines 203-215: the input file is read
CheckerRead ==
    /\ pc = "checker.start"
    /\ IF ~input.readable
       THEN /\ log' = Append(log, Printed("Error: Input file not found."))
            /\ pc' = "checker.done"
       ELSE IF original_domains(input.lines) = <<>>
       THEN /\ log' = Append(log,
                        Printed("Input file is empty or contains no valid domain lines."))
            /\ pc' = "checker.done"
       ELSE /\ log' = log
            /\ pc' = "checker.loop"
    /\ UNCHANGED <<input, idx, results_data, outfile, call, ret>>

\* lines 222-230: no base name for this line: an error row, and on to the next
CheckerNoBase ==
    /\ pc = "checker.loop"
    /\ idx[1] < Len(original_domains(input.lines))
    /\ LET orig_domain == original_domains(input.lines)[idx[1] + 1]
       IN  /\ extract_meaningful_base(orig_domain) = <<>>
           /\ results_data' = Append(results_data,
                  [c \in {"Original Input Domain", "Base Name Extracted",
                          "WHOIS Notes/Errors"} |->
                      CASE c = "Original Input Domain" -> orig_domain
                        [] c = "Base Name Extracted" -> <<"Error">>
                        [] OTHER -> <<"Could not extract base name from input.">>])
           /\ log' = Append(log, Printed("Warning: Could not extract a valid base name"))
    /\ idx' = <<idx[1] + 1, 0>>
    /\ UNCHANGED <<pc, input, outfile, call, ret>>

\* lines 233-250: one turn of the loop over the TLDs
CheckerVariant ==
    /\ pc = "checker.loop"
    /\ idx[1] < Len(original_domains(input.lines))
    /\ LET orig_domain == original_domains(input.lines)[idx[1] + 1]
           base_name == extract_meaningful_base(orig_domain)
           tld == TLDS_TO_CHECK[idx[2] + 1]
           domain_variant_to_check == base_name \o <<tld>>
       IN  /\ base_name # <<>>
           /\ \E env \in DriverEnvs :
                 LET got == get_domain_variant_info(domain_variant_to_check, env)
                     row == [c \in {"Original Input Domain", "Base Name Extracted",
                                    "TLD Variant Checked"} |->
                                CASE c = "Original Input Domain" -> orig_domain
                                  [] c = "Base Name Extracted" -> base_name
                                  [] OTHER -> <<tld>>]
                 IN  /\ results_data' = Append(results_data, got.info @@ row)
                     /\ log' = log \o Queries(got.queries, domain_variant_to_check)
                                   \o <<Slept>>
    /\ idx' = NextTurn(idx)
    /\ UNCHANGED <<pc, input, outfile, call, ret>>

\* lines 252-261: the output file is written, if it can be
CheckerWrite ==
    /\ pc = "checker.loop"
    /\ idx[1] = Len(original_domains(input.lines))
    /\ \/ /\ outfile' = <<output_header>>
                           \o [i \in 1..Len(results_data) |-> DictRow(results_data[i])]
          /\ log' = Append(log, Printed("Successfully wrote all results"))
       \/ /\ outfile' = outfile
          /\ log' = Append(log, Printed("Error writing results to output file"))
    /\ pc' = "checker.done"
    /\ UNCHANGED <<input, idx, results_data, call, ret>>

---------------------------------------------------------------------------
(* Collector: process_csv_files.                                           *)

\* the rows csv.reader yields for the input file of the collector
CollectorRows ==
    { <<>>,
      << <<" ">> >>,
      << <<" ", "A", ".", "COM", " ">>, <<"x">> >>,
      << <<"a", " ", "b", ".", "com">> >>,
      << <<"a", "\t", "b", ".", "com">> >>,
      << <<"abc">> >>,
      << <<"x254", ".", "com">> >> }

\* line 175
domain_name_of(row) == Lower(Strip(row[1]))

\* a validation that looks for the '.' and at the length only
InvalidFormat_without_space_test(domain_name) ==
    \/ ~Contains(domain_name, <<".">>)
    \/ StrLen(domain_name) > 253

\* line 183: the basic validation
InvalidFormat(domain_name) ==
    \/ ~Contains(domain_name, <<".">>)
    \/ Contains(domain_name, <<" ">>)
    \/ StrLen(domain_name) > 253

\* the row is kept back instead of being written
writerow_buffered(file, row) == file

\* csv.writer.writerow on the open output file: the row is in the file
writerow(file, row) == Append(file, row)

\* lines 158-168: both files are opened and the header is written
CollectorOpen ==
    /\ pc = "collector.start"
    /\ IF ~input.readable
       THEN /\ log' = Append(log, Printed("Error: Input file not found."))
            /\ outfile' = outfile
            /\ pc' = "collector.done"
       ELSE /\ log' = Append(log, Printed("Starting to process domains"))
            /\ outfile' = << << <<"Domain">>, <<"Information">> >> >>
            /\ pc' = "collector.loop"
    /\ UNCHANGED <<input, idx, results_data, call, ret>>

\* lines 171-173: an empty row is skipped
CollectorSkipEmptyRow ==
    /\ pc = "collector.loop"
    /\ idx[1] < Len(input.lines)
    /\ input.lines[idx[1] + 1] = <<>>
    /\ log' = Append(log, Printed("Skipping empty row"))
    /\ idx' = <<idx[1] + 1, 0>>
    /\ UNCHANGED <<pc, input, results_data, outfile, call, ret>>

\* lines 177-180: a row whose first column is blank
CollectorEmptyDomain ==
    /\ pc = "collector.loop"
    /\ idx[1] < Len(input.lines)
    /\ LET row == input.lines[idx[1] + 1]
       IN  /\ row # <<>>
           /\ domain_name_of(row) = <<>>
    /\ outfile' = writerow(outfile,
                     << <<"EMPTY_ROW">>, <<"No domain provided in this row.">> >>)
    /\ log' = Append(log, Printed("Skipping empty domain name"))
    /\ idx' = <<idx[1] + 1, 0>>
    /\ UNCHANGED <<pc, input, results_data, call, ret>>

\* lines 183-186: a domain that fails the basic validation
CollectorInvalid ==
    /\ pc = "collector.loop"
    /\ idx[1] < Len(input.lines)
    /\ LET row == input.lines[idx[1] + 1]
       IN  /\ row # <<>>
           /\ domain_name_of(row) # <<>>
           /\ InvalidFormat(domain_name_of(row))
           /\ outfile' = writerow(outfile,
                            <<domain_name_of(row), <<"Invalid domain format">> >>)
    /\ log' = Append(log, Printed("Skipping invalid domain format"))
    /\ idx' = <<idx[1] + 1, 0>>
    /\ UNCHANGED <<pc, input, results_data, call, ret>>

\* lines 188-201: the lookups of one domain, its row, and the delay
\* (get_domain_info catches what its lookups raise, so the handler of
\* lines 194-197 is not entered)
CollectorQuery ==
    /\ pc = "collector.loop"
    /\ idx[1] < Len(input.lines)
    /\ LET row == input.lines[idx[1] + 1]
       IN  /\ row # <<>>
           /\ domain_name_of(row) # <<>>
           /\ ~InvalidFormat(domain_name_of(row))
           /\ \E env \in DriverEnvs :
                 /\ outfile' = writerow(outfile,
                        <<domain_name_of(row), get_domain_info(domain_name_of(row), env)>>)
                 /\ log' = log
                      \o Queries(CollectorLookups(domain_name_of(row), env).queries,
                                 domain_name_of(row))
                      \o <<Slept>>
    /\ idx' = <<idx[1] + 1, 0>>
    /\ UNCHANGED <<pc, input, results_data, call, ret>>

\* line 203: the reader is exhausted
CollectorDone ==
    /\ pc = "collector.loop"
    /\ idx[1] = Len(input.lines)
    /\ log' = Append(log, Printed("Processing complete."))
    /\ pc' = "collector.done"
    /\ UNCHANGED <<input, idx, results_data, outfile, call, ret>>

---------------------------------------------------------------------------
(* Spec: one run of either tool over an input file.                        *)

Init ==
    /\ \/ /\ pc = "checker.start"
          /\ call = [fn |-> "main"]
          /\ input \in {File(FALSE, <<>>)}
                \cup {File(TRUE, l) : l \in SeqsOf(CheckerLines, 0, MaxRows)}
       \/ /\ pc = "collector.start"
          /\ call = [fn |-> "process_csv_files"]
          /\ input \in {File(FALSE, <<>>)}
                \cup {File(TRUE, l) : l \in SeqsOf(CollectorRows, 0, MaxRows)}
    /\ ret = <<>>
    /\ idx = <<0, 0>>
    /\ results_data = <<>>
    /\ outfile = <<>>
    /\ log = <<>>

Next ==
    \/ CheckerRead
    \/ CheckerNoBase
    \/ CheckerVariant
    \/ CheckerWrite
    \/ CollectorOpen
    \/ CollectorSkipEmptyRow
    \/ CollectorEmptyDomain
    \/ CollectorInvalid
    \/ CollectorQuery
    \/ CollectorDone

Spec == Init /\ [][Next]_vars

\* the run has ended
Ended == pc \in {"checker.done", "collector.done"}

\* the status the process ends with: main and process_csv_files return on
\* every path, the failure to open the input file included, and neither
\* script calls sys.exit or lets an exception escape
ExitStatus == IF Ended THEN 0 ELSE -1

---------------------------------------------------------------------------
(* SpecInfo: one call of get_domain_variant_info or of get_domain_info,    *)
(* under every outcome of its network calls.                               *)

\* the domain the calls are made for
SampleDomain == <<"a", ".", "com">>

InitInfo ==
    /\ pc = "call"
    /\ call \in {[fn |-> "get_domain_variant_info", domain |-> SampleDomain, env |-> e] :
                    e \in CheckerEnvs}
            \cup {[fn |-> "get_domain_info", domain |-> SampleDomain, env |-> e] :
                    e \in CollectorEnvs}
    /\ ret = <<>>
    /\ input = <<>>
    /\ idx = <<0, 0>>
    /\ results_data = <<>>
    /\ outfile = <<>>
    /\ log = <<>>

CallVariantInfo ==
    /\ pc = "call"
    /\ call.fn = "get_domain_variant_info"
    /\ ret' = get_domain_variant_info(call.domain, call.env)
    /\ pc' = "return"
    /\ UNCHANGED <<input, idx, results_data, outfile, log, call>>

CallDomainInfo ==
    /\ pc = "call"
    /\ call.fn = "get_domain_info"
    /\ ret' = [text |-> get_domain_info(call.domain, call.env)]
                 @@ CollectorLookups(call.domain, call.env)
    /\ pc' = "return"
    /\ UNCHANGED <<input, idx, results_data, outfile, log, call>>

NextInfo == CallVariantInfo \/ CallDomainInfo

SpecInfo == InitInfo /\ [][NextInfo]_vars

\* a call of get_domain_variant_info has returned
VariantReturned == pc = "return" /\ call.fn = "get_domain_variant_info"
\* a call of get_domain_info has returned
InfoReturned == pc = "return" /\ call.fn = "get_domain_info"

---------------------------------------------------------------------------
(* Claims about one call (checked under SpecInfo).                         *)

\* how the A/AAAA lookup of the environment ends: "answer" or the failure
IpLookupEnd(env) == IF env.a.k # "answer" THEN env.a.k ELSE env.aaaa.k

SkippedNote == <<"Skipped WHOIS due to DNS indicating non-existence.">>

\* C1: when the A/AAAA lookup and the NS lookup both end in NXDOMAIN, no WHOIS
\* query is issued and the notes field holds the "Skipped WHOIS" note,
\* whatever the MX lookup does.
C1_WhoisSkippedOnNxdomain ==
    (VariantReturned /\ IpLookupEnd(call.env) = "NXDOMAIN" /\ call.env.ns.k = "NXDOMAIN")
        => /\ "WHOIS" \notin Range(ret.queries)
           /\ Contains(ret.info["WHOIS Notes/Errors"], SkippedNote)

\* the addresses the A and the AAAA lookup of the environment return
AddressesOf(env) ==
    (IF env.a.k = "answer" THEN Range(env.a.rr) ELSE {})
        \cup (IF env.aaaa.k = "answer" THEN Range(env.aaaa.rr) ELSE {})

\* C6: 'IP Addresses' is the sorted, de-duplicated, comma-joined union of the
\* addresses the A and AAAA lookups return, and 'N/A' only when there is none.
C6_IpAddressesAreTheUnion ==
    VariantReturned =>
        ret.info["IP Addresses"] =
            IF AddressesOf(call.env) = {} THEN NA
            ELSE JoinComma(SortedStrs(AddressesOf(call.env)))

\* '<preference> <exchange>' of an MX record, the exchange without its final dot
MxText(r) == <<Decimal(r.preference), " ">> \o RStripDot(r.exchange)

\* r comes before q: by preference as integers, then by exchange name
MxBefore(r, q) ==
    \/ r.preference < q.preference
    \/ r.preference = q.preference /\ StrLess(RStripDot(r.exchange), RStripDot(q.exchange))

\* the answers rr in the order C7 states
MxOrdered(rr) ==
    CHOOSE s \in [1..Len(rr) -> Range(rr)] :
        /\ Range(s) = Range(rr)
        /\ \A i, j \in 1..Len(s) : i < j => MxBefore(s[i], s[j])

\* C7: for every non-empty set of MX answers, in any order, 'Mail Servers (MX)'
\* lists them as '<preference> <exchange>' by preference, then exchange name.
C7_MxSortedByPreferenceThenName ==
    (VariantReturned /\ call.env.mx.k = "answer")
        => ret.info["Mail Servers (MX)"] =
              JoinComma([i \in 1..Len(call.env.mx.rr) |->
                            MxText(MxOrdered(call.env.mx.rr)[i])])

\* the WHOIS response is empty/absent or carries no domain name
NoWhoisData(o) ==
    \/ o.k = "falsy"
    \/ o.k = "record" /\ ~Truthy(Attr(o.w, "domain_name"))

\* C8: whenever the WHOIS response is empty/absent or has no domain name, the
\* result records it as an error: the collector in its errors list, the TLD
\* checker as a WHOIS entry of the notes field, whatever DNS answered.
C8_NoDataIsAnErrorSignal ==
    /\ (VariantReturned /\ NoWhoisData(call.env.whois))
          => /\ ret.whois_errors # <<>>
             /\ Contains(ret.info["WHOIS Notes/Errors"], <<"WHOIS: ">>)
    /\ (InfoReturned /\ NoWhoisData(call.env.whois))
          => /\ \E i \in 1..Len(ret.errors) :
                   ret.errors[i][1] = "WHOIS lookup failed for "
             /\ Contains(ret.text, <<"\n\nEncountered issues:\n">>)

\* the TLD checker normalises the fields of the record it got
Normalised(o) ==
    o.k = "record" /\ (Truthy(Attr(o.w, "domain_name")) \/ Truthy(Attr(o.w, "text")))

\* a list of plain strings: every element a non-empty str without padding
PlainList(v) ==
    /\ v.k = "list"
    /\ v.l # <<>>
    /\ \A i \in 1..Len(v.l) : v.l[i].k = "str" /\ v.l[i].s # <<>> /\ Strip(v.l[i].s) = v.l[i].s

\* the elements of a list, as strings
ElementsOf(v) == {Str(v.l[i]) : i \in 1..Len(v.l)}

\* the line of info_parts that starts with head
HasLine(parts, head) == \E i \in 1..Len(parts) : parts[i][1] = head
LineOf(parts, head) == parts[CHOOSE i \in 1..Len(parts) : parts[i][1] = head]

\* the attribute of the WHOIS record of the call
W(attr_name) == Attr(call.env.whois.w, attr_name)

\* C5 as stated: in both tools a date list renders as its first element and
\* any other list (the domain status) as the comma-join of its unique
\* elements in sorted order.
C5_ListsRenderSortedInBothTools ==
    /\ (VariantReturned /\ Normalised(call.env.whois))
          => /\ PlainList(W("creation_date"))
                   => ret.info["WHOIS Creation Date"] = W("creation_date").l[1].s
             /\ PlainList(W("status"))
                   => ret.info["WHOIS Domain Status"] =
                         JoinComma(SortedStrs(ElementsOf(W("status"))))
    /\ (InfoReturned /\ HasLine(ret.info_parts, "Domain Status: "))
          => /\ PlainList(W("creation_date"))
                   => LineOf(ret.info_parts, "Creation Date: ") =
                         <<"Creation Date: ">> \o W("creation_date").l[1].s
             /\ PlainList(W("status"))
                   => LineOf(ret.info_parts, "Domain Status: ") =
                         <<"Domain Status: ">> \o
                             JoinComma(SortedStrs(ElementsOf(W("status"))))

\* the stripped, non-empty elements of a list
KeptElements(v) == {Strip(Str(v.l[i])) : i \in {j \in 1..Len(v.l) : Truthy(v.l[j])}}

\* s is the ", "-join of a strictly increasing sequence of strings whose set is S
IsSortedJoinOf(s, S) ==
    \E q \in [1..Cardinality(S) -> S] :
        /\ Range(q) = S
        /\ \A i \in 1..(Len(q) - 1) : StrLess(q[i], q[i + 1])
        /\ s = JoinComma(q)

\* C5, amended: the TLD checker renders a date list as its first element and
\* any other list as the ", "-join of its stripped non-empty elements, unique
\* and sorted, so the value depends neither on order nor on duplicates; the
\* collector renders a date list as its first element ('N/A' when that is
\* empty) and joins the status list in record order.
C5_ListRendering ==
    /\ (VariantReturned /\ Normalised(call.env.whois))
          => /\ \A c \in {<<"WHOIS Creation Date", "creation_date">>,
                          <<"WHOIS Updated Date", "updated_date">>,
                          <<"WHOIS Expiration Date", "expiration_date">>} :
                   (W(c[2]).k = "list" /\ W(c[2]).l # <<>>)
                      => ret.info[c[1]] = Str(W(c[2]).l[1])
             /\ (W("status").k = "list" /\ W("status").l # <<>>)
                   => /\ IsSortedJoinOf(ret.info["WHOIS Domain Status"],
                                        KeptElements(W("status")))
                      /\ \A l2 \in SeqsOf(ListElems, 1, MaxListLen) :
                            Range(l2) = Range(W("status").l) =>
                               get_val([status |-> ListV(l2)], "status", TRUE, FALSE)
                                   = ret.info["WHOIS Domain Status"]
    /\ (InfoReturned /\ HasLine(ret.info_parts, "Domain Status: "))
          => /\ (W("creation_date").k = "list" /\ W("creation_date").l # <<>>)
                   => LineOf(ret.info_parts, "Creation Date: ") =
                         <<"Creation Date: ">> \o
                             (IF Truthy(W("creation_date").l[1])
                              THEN Str(W("creation_date").l[1]) ELSE NA)
             /\ (W("status").k = "list" /\ W("status").l # <<>>)
                   => LineOf(ret.info_parts, "Domain Status: ") =
                         <<"Domain Status: ">> \o
                             JoinComma([i \in 1..Len(W("status").l) |-> W("status").l[i].s])

\* C5's case: both tools have rendered a status list given out of order
C5_Witness ==
    /\ pc = "return"
    /\ call.env.whois.k = "record"
    /\ Attr(call.env.whois.w, "status") = ListV(<<StrV(<<"b">>), StrV(<<"a">>)>>)
    /\ \/ (call.fn = "get_domain_variant_info"
             /\ ret.info["WHOIS Domain Status"] = <<"a", ",", " ", "b">>)
       \/ (call.fn = "get_domain_info"
             /\ HasLine(ret.info_parts, "Domain Status: ")
             /\ LineOf(ret.info_parts, "Domain Status: ")
                   = <<"Domain Status: ", "b", ",", " ", "a">>)

\* the PywhoisError texts of the model that say the domain has no match
NoMatchTexts == {<<"No match", " for ", "x">>, <<"NOT FOUND">>}

\* the failure category of a WHOIS exception
WhoisCategory(o) ==
    CASE o.k = "PywhoisError" /\ o.msg \in NoMatchTexts -> "no match"
      [] o.k = "PywhoisError" /\ o.msg \notin NoMatchTexts -> "uncategorized"
      [] o.k = "ConnectionResetError" -> "connection reset"
      [] o.k = "socket.timeout" -> "timeout"
      [] o.k = "AttributeError" -> "unexpected shape"
      [] o.k = "Exception" -> "uncategorized"

---------------------------------------------------------------------------
(* Claims about a run (checked under Spec).                                *)

CheckerRunning == pc \in {"checker.loop", "checker.done"} /\ input.readable
CollectorRunning == pc \in {"collector.loop", "collector.done"} /\ input.readable

\* the input rows of the collector consumed so far that are not empty rows
RowsTaken == SelectSeq(SubSeq(input.lines, 1, idx[1]), LAMBDA row : row # <<>>)
\* the data rows of the output file
DataRows == IF outfile = <<>> THEN <<>> ELSE Tail(outfile)
\* the first column of the row written for an input row
DomainColumn(row) ==
    IF domain_name_of(row) = <<>> THEN <<"EMPTY_ROW">> ELSE domain_name_of(row)

\* the rows main owes for a line: one per TLD, or the error row
RECURSIVE RowsOwed(_, _)
RowsOwed(lines, tlds) ==
    IF lines = <<>> THEN <<>>
    ELSE LET base_name == extract_meaningful_base(lines[1])
             n == IF Len(lines) = 1 THEN tlds ELSE Len(TLDS_TO_CHECK)
         IN  (IF base_name = <<>>
              THEN IF Len(lines) = 1 /\ tlds = 0 THEN <<>>
                   ELSE << <<lines[1], <<"Error">>, <<>> >> >>
              ELSE [t \in 1..n |-> <<lines[1], base_name, <<TLDS_TO_CHECK[t]>> >>])
             \o RowsOwed(Tail(lines), tlds)

\* the rows main owes when it stands at idx
Owed ==
    LET lines == original_domains(input.lines)
    IN  IF idx[2] = 0 THEN RowsOwed(SubSeq(lines, 1, idx[1]), Len(TLDS_TO_CHECK))
        ELSE RowsOwed(SubSeq(lines, 1, idx[1] + 1), idx[2])

FailedVariantRow(row) ==
    /\ "WHOIS Notes/Errors" \in DOMAIN row
    /\ Contains(row["WHOIS Notes/Errors"], <<"DNS ", "NXDOMAIN (", "IP", ")">>)
    /\ row["IP Addresses"] = NA

QueriedDomains == {log[i].domain : i \in {j \in 1..Len(log) : log[j].ev = "query"}}

HasWhitespace(s) == \E i \in 1..Len(s) : IsSpace(s[i])
\* an input domain that contains whitespace or no '.'
Malformed(domain) == HasWhitespace(domain) \/ ~Contains(domain, <<".">>)

\* C3 as stated: in both tools an input domain that contains whitespace or no
\* '.' yields exactly one row flagged 'Invalid domain format', and no DNS or
\* WHOIS query is issued for it.
C3_MalformedFlaggedInBothTools ==
    /\ CollectorRunning =>
          /\ Len(DataRows) = Len(RowsTaken)
          /\ \A k \in 1..Len(RowsTaken) :
                LET domain_name == domain_name_of(RowsTaken[k])
                IN  (domain_name # <<>> /\ Malformed(domain_name))
                      => /\ DataRows[k] = <<domain_name, <<"Invalid domain format">> >>
                         /\ domain_name \notin QueriedDomains
    /\ CheckerRunning =>
          \A k \in 1..Len(results_data) :
             Malformed(results_data[k]["Original Input Domain"])
               => /\ "Full Domain Queried" \notin DOMAIN results_data[k]
                  /\ results_data[k]["WHOIS Notes/Errors"] = <<"Invalid domain format">>

\* C3, amended: the collector alone validates the format: a domain (the
\* trimmed, lower-cased first column) that contains a space character or no
\* '.', or is longer than 253 characters, yields exactly one row flagged
\* 'Invalid domain format' and no query is issued for it; any other domain,
\* one with a tab inside included, is queried. The TLD checker flags no row
\* that way: every line with a base name, one without '.' included, is queried.
C3_OnlyCollectorValidatesFormat ==
    /\ CollectorRunning =>
          /\ Len(DataRows) = Len(RowsTaken)
          /\ \A k \in 1..Len(RowsTaken) :
                LET domain_name == domain_name_of(RowsTaken[k])
                    rejected == \/ Contains(domain_name, <<" ">>)
                                \/ ~Contains(domain_name, <<".">>)
                                \/ StrLen(domain_name) > 253
                IN  domain_name # <<>> =>
                      /\ rejected =>
                            /\ DataRows[k] = <<domain_name, <<"Invalid domain format">> >>
                            /\ domain_name \notin QueriedDomains
                      /\ ~rejected =>
                            /\ DataRows[k][2] # <<"Invalid domain format">>
                            /\ domain_name \in QueriedDomains
    /\ CheckerRunning =>
          \A k \in 1..Len(results_data) :
             /\ results_data[k]["WHOIS Notes/Errors"] # <<"Invalid domain format">>
             /\ extract_meaningful_base(results_data[k]["Original Input Domain"]) # <<>>
                  => /\ "Full Domain Queried" \in DOMAIN results_data[k]
                     /\ results_data[k]["Full Domain Queried"] \in QueriedDomains

\* C3's case: the collector has flagged a domain with a space inside
C3_Witness ==
    /\ CollectorRunning
    /\ \E k \in 1..Len(DataRows) :
          DataRows[k] = << <<"a", " ", "b", ".", "com">>, <<"Invalid domain format">> >>
    /\ <<"a", " ", "b", ".", "com">> \notin QueriedDomains

\* C4: in every row the TLD checker writes, no WHOIS column is the empty
\* string or the text 'None': a value that is missing, empty or unusable
\* renders as 'N/A', in the row of a variant and in the error row of a line
\* without base name.
C4_WhoisColumnsNeverEmptyOrNone ==
    (pc = "checker.done" /\ outfile # <<>>) =>
       \A k \in 1..Len(DataRows) : \A c \in WhoisColumns :
          /\ DataRows[k][c] # <<>>
          /\ DataRows[k][c] # <<"None">>

\* C10: extract_meaningful_base returns empty whenever tldextract identifies
\* no domain label in the line; main records for such a line exactly one
\* error row, issues no query for it, and goes on with the next line.
C10_NoDomainLabelIsAnErrorRow ==
    CheckerRunning =>
       /\ Len(results_data) = Len(Owed)
       /\ \A k \in 1..Len(results_data) :
             LET orig_domain == results_data[k]["Original Input Domain"]
             IN  tldextract_extract(Strip(Lower(orig_domain))).domain = <<>> =>
                   /\ extract_meaningful_base(orig_domain) = <<>>
                   /\ results_data[k]["Base Name Extracted"] = <<"Error">>
                   /\ results_data[k]["WHOIS Notes/Errors"]
                         = <<"Could not extract base name from input.">>
                   /\ "Full Domain Queried" \notin DOMAIN results_data[k]

---------------------------------------------------------------------------
(* Claims about the order of the events of a run (checked under Spec).     *)

IsQuery(i) == log[i].ev = "query"
IsSleep(i) == log[i].ev = "sleep"

\* C11: in both tools every query of the log is followed by the delay, with
\* nothing but further queries of the same domain (or domain variant) in
\* between: the delay is executed after every domain or variant that was
\* queried, whatever its lookups answered, and before the first query of the
\* next one.
C11_DelayAfterEveryQueriedDomain ==
    \A i \in 1..Len(log) :
       IsQuery(i) =>
          \E j \in (i + 1)..Len(log) :
             /\ IsSleep(j)
             /\ \A k \in (i + 1)..(j - 1) :
                   IsQuery(k) /\ log[k].domain = log[i].domain

\* C11's case: the lookups of one variant failed, the delay followed, and the
\* next variant has been queried
C11_Witness ==
    /\ pc = "checker.loop"
    /\ Len(results_data) >= 2
    /\ FailedVariantRow(results_data[1])
    /\ \E i, j, k \in 1..Len(log) :
          /\ i < j /\ j < k
          /\ IsQuery(i) /\ IsSleep(j) /\ IsQuery(k)
          /\ log[i].domain # log[k].domain

C13_OpenFailureIsTheOnlyFatalOutcome ==
    /\ (Ended /\ ~input.readable) =>
          /\ QueriedDomains = {}
          /\ log = <<Printed("Error: Input file not found.")>>
          /\ ExitStatus # 0
    /\ (Ended /\ input.readable) => ExitStatus = 0

---------------------------------------------------------------------------
(* Claims about the result of get_domain_variant_info (checked under        *)
(* SpecInfo).                                                               *)

\* C14: in every result of get_domain_variant_info 'DNS Resolves (A/AAAA)'
\* is 'Yes' exactly when 'IP Addresses' is not 'N/A' and is 'No' otherwise,
\* and 'WHOIS Notes/Errors' is never empty: it is 'OK' exactly when no DNS
\* error and no WHOIS note was recorded.
C14_ResolvesAndNotesAgreeWithTheFields ==
    VariantReturned =>
       /\ ret.info["DNS Resolves (A/AAAA)"] \in {<<"Yes">>, <<"No">>}
       /\ ret.info["DNS Resolves (A/AAAA)"] = <<"Yes">>
             <=> ret.info["IP Addresses"] # NA
       /\ ret.info["WHOIS Notes/Errors"] # <<>>
       /\ ret.info["WHOIS Notes/Errors"] = <<"OK">>
             <=> (ret.dns_errors = <<>> /\ ret.whois_errors = <<>>)

\* C14's case: a variant whose lookups all answered: addresses, 'Yes', 'OK'
C14_Witness ==
    /\ VariantReturned
    /\ ret.info["IP Addresses"] = <<"1.1.1.1", ",", " ", "::1">>
    /\ ret.info["DNS Resolves (A/AAAA)"] = <<"Yes">>
    /\ ret.info["WHOIS Notes/Errors"] = <<"OK">>

===========================================================================
